---- MODULE Spec2Model ----
(***************************************************************************)
(* A model of flashlight: the animation algebra of src/flashlight.ts       *)
(* (tween, delay, repeat, sequence/track) and the frame scheduler of       *)
(* src/frame.ts (withFrame, draw, play).                                   *)
(*                                                                         *)
(* Numbers.  JavaScript numbers are modelled as exact rationals            *)
(* [n |-> numerator, d |-> denominator] in lowest terms with d > 0, plus   *)
(* the three non-finite values a division by zero produces:                *)
(*   Infinity = [n |-> 1, d |-> 0], -Infinity = [n |-> -1, d |-> 0],       *)
(*   NaN      = [n |-> 0, d |-> 0].                                        *)
(* Animations.  A closure with a duration property is modelled as a record *)
(* holding the captured variables and the duration field; Eval applies it. *)
(***************************************************************************)
EXTENDS Integers, Sequences, FiniteSets, TLC

VARIABLES
    \* inputs and result of the last application of an animation combinator
    first, rest, arg, frame, out,
    \* host: performance.now(), the callbacks requested for the next rendering
    \* tick, the callbacks of the tick being dispatched, and whether caller
    \* code ran since the last tick began
    now, raf, running, called,
    \* withFrame: the module state, and a record of the calls and the runs
    jobs, isFrameScheduled, enqLog, runLog, flushes,
    \* draw: the closure state of one controller, and a record of its ticks
    isPlaying, start, lastFrame, paused, ticksSincePause, callsSincePause,
    callsThisTick,
    \* play: the closure state of one call, and a record of its ticks
    animation, playStart, playLog, playDone

algVars == <<first, rest, arg, frame, out>>
hostVars == <<now, raf, running, called>>
jobVars == <<jobs, isFrameScheduled, enqLog, runLog, flushes>>
drawVars ==
    <<isPlaying, start, lastFrame, paused, ticksSincePause, callsSincePause,
      callsThisTick>>
playVars == <<animation, playStart, playLog, playDone>>
vars == <<algVars, hostVars, jobVars, drawVars, playVars>>

---------------------------------------------------------------------------
(* Bounds *)
MaxDur == 3
MaxFrame == 6
MaxArg == 3
MaxTime == 90
MaxJobs == 5
MaxSpawn == 2
MaxRaf == 3

---------------------------------------------------------------------------
(* Numbers *)

Abs(i) == IF i < 0 THEN 0 - i ELSE i

Sign(i) == IF i < 0 THEN 0 - 1 ELSE IF i > 0 THEN 1 ELSE 0

RECURSIVE Gcd(_, _)
Gcd(a, b) == IF b = 0 THEN a ELSE Gcd(b, a % b)

\* the number n/d; n/0 is Infinity, -Infinity or NaN by the sign of n
Norm(n, d) ==
    IF d = 0 THEN [n |-> Sign(n), d |-> 0]
    ELSE LET g == Gcd(Abs(n), Abs(d))
         IN  [n |-> (Sign(d) * n) \div g, d |-> Abs(d) \div g]

R(i) == [n |-> i, d |-> 1]

NaN == [n |-> 0, d |-> 0]

IsNaN(x) == x.d = 0 /\ x.n = 0

Add(x, y) ==
    IF IsNaN(x) \/ IsNaN(y) THEN NaN
    ELSE IF x.d = 0 /\ y.d = 0 THEN (IF x.n = y.n THEN x ELSE NaN)
    ELSE Norm(x.n * y.d + y.n * x.d, x.d * y.d)

Neg(x) == [n |-> 0 - x.n, d |-> x.d]

Sub(x, y) == Add(x, Neg(y))

Mul(x, y) == Norm(x.n * y.n, x.d * y.d)

Div(x, y) ==
    IF IsNaN(x) \/ IsNaN(y) THEN NaN
    ELSE IF y.n < 0 THEN Norm((0 - x.n) * y.d, x.d * (0 - y.n))
    ELSE Norm(x.n * y.d, x.d * y.n)

\* x < y; every comparison with NaN is false
Lt(x, y) ==
    IF IsNaN(x) \/ IsNaN(y) THEN FALSE
    ELSE IF x.d = 0 /\ y.d = 0 THEN x.n < y.n
    ELSE x.n * y.d < y.n * x.d

Le(x, y) == Lt(x, y) \/ (~IsNaN(x) /\ x = y)

\* Math.max and Math.min: NaN if either argument is NaN
MathMax(x, y) == IF IsNaN(x) \/ IsNaN(y) THEN NaN ELSE IF Lt(x, y) THEN y ELSE x

MathMin(x, y) == IF IsNaN(x) \/ IsNaN(y) THEN NaN ELSE IF Lt(y, x) THEN y ELSE x

\* Math.floor of a finite number, as an integer
Floor(x) == x.n \div x.d

\* the remainder operator of JavaScript: the sign of the dividend, NaN for x % 0
Rem(x, y) ==
    IF IsNaN(x) \/ IsNaN(y) \/ x.d = 0 \/ y.n = 0 THEN NaN
    ELSE IF y.d = 0 THEN x
    ELSE LET q == Div(x, y)
             t == IF q.n < 0 THEN 0 - ((0 - q.n) \div q.d) ELSE q.n \div q.d
         IN  Sub(x, Mul(y, R(t)))

---------------------------------------------------------------------------
(* Numeric utilities *)

\* the value a thrown "Min value cannot be greater than max value" stands for
InvalidRange == [n |-> 0, d |-> 0 - 1]

clamp(value, min, max) ==
    IF Lt(max, min) THEN InvalidRange
    ELSE MathMin(MathMax(value, min), max)

frameToProgress(f, duration) == clamp(Div(f, duration), R(0), R(1))

\* Math.floor(elapsedMs / (1000 / fps)); for the elapsed times modelled
\* (below 250 ms) the rounding of 1000 / fps does not change the floor
elapsedToFrame(elapsedMs, fps) == Floor(Div(R(elapsedMs), Div(R(1000), R(fps))))

lerp(from, to, progress) ==
    Add(from, Mul(MathMax(Sub(to, from), R(0)), clamp(progress, R(0), R(1))))

linear(t) == t

easeInQuad(t) == Mul(t, t)

Easing(name, t) == IF name = "easeInQuad" THEN easeInQuad(t) ELSE linear(t)

---------------------------------------------------------------------------
(* Animation algebra *)

tweenWith(from, to, duration, easing) ==
    [kind |-> "tween", from |-> from, to |-> to, easing |-> easing,
     duration |-> duration]

tween(from, to, duration, easing) == tweenWith(from, to, duration, easing)

delay(anim, duration) ==
    [kind |-> "delay", anim |-> anim, delay |-> duration,
     duration |-> Add(duration, anim.duration)]

repeat(anim, times) ==
    [kind |-> "repeat", anim |-> anim, xduration |-> Mul(times, anim.duration),
     duration |-> Mul(times, anim.duration)]

sequence(a, b) ==
    [kind |-> "sequence", a |-> a, b |-> b,
     duration |-> Add(a.duration, b.duration)]

RECURSIVE reduce(_, _)
reduce(list, acc) ==
    IF list = <<>> THEN acc ELSE reduce(Tail(list), sequence(acc, Head(list)))

track(fst, rst) == reduce(rst, fst)

\* the call anim(f), for each of the closures the combinators return
RECURSIVE Eval(_, _)

\* the closure tweenWith returns
tweenAnim(anim, f) ==
    lerp(anim.from, anim.to,
         Easing(anim.easing, frameToProgress(f, anim.duration)))

\* the closure delay returns
delayed(anim, f) ==
    LET inner == clamp(Sub(f, anim.delay), R(0), anim.delay)
    IN  IF inner = InvalidRange THEN InvalidRange ELSE Eval(anim.anim, inner)

\* repeated, freezing only after the last frame instead of at it
repeated_late(anim, f) ==
    IF Lt(anim.xduration, f) THEN Eval(anim.anim, anim.anim.duration)
    ELSE Eval(anim.anim, Rem(f, anim.anim.duration))

\* the closure repeat returns
repeated(anim, f) ==
    IF Le(anim.xduration, f) THEN Eval(anim.anim, anim.anim.duration)
    ELSE Eval(anim.anim, Rem(f, anim.anim.duration))

\* sequenced, handing over to b at frame a.duration instead of after it
sequenced_early(anim, f) ==
    IF Lt(f, anim.a.duration) THEN Eval(anim.a, f)
    ELSE Eval(anim.b, Sub(f, anim.a.duration))

\* the closure sequence returns
sequenced(anim, f) ==
    IF Le(f, anim.a.duration) THEN Eval(anim.a, f)
    ELSE Eval(anim.b, Sub(f, anim.a.duration))

Eval(anim, f) ==
    CASE anim.kind = "tween" -> tweenAnim(anim, f)
      [] anim.kind = "delay" -> delayed(anim, f)
      [] anim.kind = "repeat" -> repeated(anim, f)
      [] anim.kind = "sequence" -> sequenced(anim, f)

---------------------------------------------------------------------------
(* Applying the combinators to inputs drawn from bounded sets *)

Vals == {0, 10}

Easings == {"linear", "easeInQuad"}

Tweens ==
    {tween(R(f), R(t), R(d), e) : f \in Vals, t \in Vals, d \in 0..MaxDur,
                                  e \in Easings}

\* animations passed to the combinators: tweens, and combinations of tweens
Anims ==
    {a \in Tweens : /\ a.from # R(10) \/ a.to # R(10)
                    /\ a.easing = "linear" \/ (a.from = R(0) /\ a.to = R(10))}
    \cup {delay(tween(R(0), R(10), R(2), "linear"), R(1)),
          repeat(tween(R(0), R(10), R(2), "linear"), R(2))}

RestAnims ==
    {tween(R(f), R(10 - f), R(d), "linear") : f \in Vals, d \in {0, 2}}
    \cup {repeat(tween(R(0), R(10), R(2), "linear"), R(0))}

LastAnims == {tween(R(0), R(10), R(2), "linear")}

\* frames in steps of one half
Frames == {Norm(k, 2) : k \in 0..(2 * MaxFrame)}

AlgInit ==
    /\ first \in Anims
    /\ rest \in {<<>>} \cup {<<b>> : b \in RestAnims}
                \cup {<<b, c>> : b \in RestAnims, c \in LastAnims}
    /\ arg \in 0..MaxArg
    /\ frame \in Frames
    /\ out = [op |-> "none"]

Applied(op, anim) ==
    [op |-> op, anim |-> anim, duration |-> anim.duration,
     value |-> Eval(anim, frame)]

\* tween(from, to, duration, easing)(frame)
ApplyTween ==
    /\ first.kind = "tween"
    /\ out' = Applied("tween", tween(first.from, first.to, first.duration, first.easing))
    /\ UNCHANGED <<first, rest, arg, frame, hostVars, jobVars, drawVars, playVars>>

\* delay(first, arg)(frame)
ApplyDelay ==
    /\ out' = Applied("delay", delay(first, R(arg)))
    /\ UNCHANGED <<first, rest, arg, frame, hostVars, jobVars, drawVars, playVars>>

\* repeat(first, arg)(frame)
ApplyRepeat ==
    /\ out' = Applied("repeat", repeat(first, R(arg)))
    /\ UNCHANGED <<first, rest, arg, frame, hostVars, jobVars, drawVars, playVars>>

\* track(first, ...rest)(frame)
ApplyTrack ==
    /\ out' = Applied("track", track(first, rest))
    /\ UNCHANGED <<first, rest, arg, frame, hostVars, jobVars, drawVars, playVars>>

AlgIdle ==
    /\ first = tween(R(0), R(10), R(1), "linear")
    /\ rest = <<>>
    /\ arg = 0
    /\ frame = R(0)
    /\ out = [op |-> "none"]

---------------------------------------------------------------------------
(* Host: the rendering clock and the monotonic clock *)

\* milliseconds between the clock readings of two successive ticks; a tick
\* reads the same millisecond as before only right after caller code ran
Deltas == {0, 10, 30}

HostInit ==
    /\ now = 0
    /\ raf = <<>>
    /\ running = <<>>
    /\ called = FALSE

\* the rendering clock fires: the callbacks requested so far are dispatched
\* one after the other; the requests they make wait for the next tick
BeginTick ==
    /\ running = <<>>
    /\ \E delta \in Deltas :
          /\ delta = 0 => called
          /\ now + delta <= MaxTime
          /\ now' = now + delta
    /\ running' = raf
    /\ raf' = <<>>
    /\ called' = FALSE
    /\ callsThisTick' = 0
    /\ UNCHANGED <<algVars, jobVars, playVars>>
    /\ UNCHANGED <<isPlaying, start, lastFrame, paused, ticksSincePause, callsSincePause>>

Count(seq, fn) == Cardinality({i \in 1..Len(seq) : seq[i] = fn})

\* the requests of callback fn not yet dispatched
Pending(fn) == Count(raf, fn) + Count(running, fn)

---------------------------------------------------------------------------
(* withFrame *)

\* a job is [id, spawn]: run, it calls withFrame spawn times in a chain (the
\* job it enqueues enqueues the next); id is its position among all calls
JobState ==
    [jobs |-> jobs, isFrameScheduled |-> isFrameScheduled, raf |-> raf,
     enqLog |-> enqLog, runLog |-> runLog]

\* withFrame, requesting a tick on every call
withFrame_eager(st, spawn, parent) ==
    LET id == Len(st.enqLog) + 1
    IN  [st EXCEPT !.jobs = Append(@, [id |-> id, spawn |-> spawn]),
                   !.enqLog = Append(@, [id |-> id, parent |-> parent,
                                         epoch |-> flushes]),
                   !.isFrameScheduled = TRUE,
                   !.raf = Append(@, "transactFrame")]

withFrame(st, spawn, parent) ==
    LET id == Len(st.enqLog) + 1
        pushed == [st EXCEPT !.jobs = Append(@, [id |-> id, spawn |-> spawn]),
                             !.enqLog = Append(@, [id |-> id, parent |-> parent,
                                                   epoch |-> flushes])]
    IN  IF ~st.isFrameScheduled
        THEN [pushed EXCEPT !.isFrameScheduled = TRUE,
                            !.raf = Append(@, "transactFrame")]
        ELSE pushed

\* the call job()
job(st, j) ==
    LET ran == [st EXCEPT !.runLog = Append(@, [id |-> j.id, flush |-> flushes + 1])]
    IN  IF j.spawn > 0 THEN withFrame(ran, j.spawn - 1, j.id) ELSE ran

RECURSIVE transactLoop(_)
transactLoop(st) ==
    IF Len(st.jobs) > 0
    THEN transactLoop(job([st EXCEPT !.jobs = Tail(@)], Head(st.jobs)))
    ELSE st

\* transactFrame, resetting the flag before the jobs run instead of after
transactFrame_resetFirst(st) == transactLoop([st EXCEPT !.isFrameScheduled = FALSE])

transactFrame(st) == [transactLoop(st) EXCEPT !.isFrameScheduled = FALSE]

SetJobState(st) ==
    /\ jobs' = st.jobs
    /\ isFrameScheduled' = st.isFrameScheduled
    /\ raf' = st.raf
    /\ enqLog' = st.enqLog
    /\ runLog' = st.runLog

RECURSIVE Spawns(_)
Spawns(seq) == IF seq = <<>> THEN 0 ELSE Head(seq).spawn + Spawns(Tail(seq))

JobInit ==
    /\ jobs = <<>>
    /\ isFrameScheduled = FALSE
    /\ enqLog = <<>>
    /\ runLog = <<>>
    /\ flushes = 0

\* caller code, between two ticks, calls withFrame(job)
WithFrame ==
    /\ running = <<>>
    /\ \E spawn \in 0..MaxSpawn :
          /\ Len(enqLog) + Spawns(jobs) + 1 + spawn <= MaxJobs
          /\ SetJobState(withFrame(JobState, spawn, 0))
    /\ called' = TRUE
    /\ UNCHANGED <<now, running, flushes, algVars, drawVars, playVars>>

\* the rendering clock dispatches transactFrame
RunTransactFrame ==
    /\ running # <<>>
    /\ Head(running) = "transactFrame"
    /\ running' = Tail(running)
    /\ SetJobState(transactFrame(JobState))
    /\ flushes' = flushes + 1
    /\ UNCHANGED <<now, called, algVars, drawVars, playVars>>

---------------------------------------------------------------------------
(* draw *)

Fps == 60

\* what the caller's callback does with the controller when it is invoked
Callbacks == {"none", "pause"}

DrawInit ==
    /\ isPlaying = FALSE
    /\ start = 0
    /\ lastFrame = 0 - 1
    /\ paused = FALSE
    /\ ticksSincePause = 0
    /\ callsSincePause = 0
    /\ callsThisTick = 0

\* caller code, between two ticks, calls play() of the controller
DrawPlay ==
    /\ running = <<>>
    /\ Len(raf) < MaxRaf
    /\ isPlaying' = TRUE
    /\ raf' = Append(raf, "draw")
    /\ paused' = FALSE
    /\ ticksSincePause' = 0
    /\ callsSincePause' = 0
    /\ called' = TRUE
    /\ UNCHANGED <<now, running, start, lastFrame, callsThisTick, algVars, jobVars, playVars>>

\* caller code, between two ticks, calls pause() of the controller
DrawPause ==
    /\ running = <<>>
    /\ isPlaying' = FALSE
    /\ paused' = TRUE
    /\ ticksSincePause' = 0
    /\ callsSincePause' = 0
    /\ called' = TRUE
    /\ UNCHANGED <<now, raf, running, start, lastFrame, callsThisTick, algVars, jobVars,
                   playVars>>

\* the rendering clock dispatches the draw closure of the controller
RunDraw ==
    /\ running # <<>>
    /\ Head(running) = "draw"
    /\ running' = Tail(running)
    /\ IF ~isPlaying
       THEN /\ ticksSincePause' = IF paused THEN ticksSincePause + 1 ELSE ticksSincePause
            /\ UNCHANGED <<raf, isPlaying, lastFrame, paused, callsSincePause, callsThisTick>>
       ELSE /\ lastFrame' = elapsedToFrame(now - start, Fps)
            /\ callsThisTick' = callsThisTick + 1
            /\ \E cb \in Callbacks :
                  IF cb = "pause"
                  THEN /\ isPlaying' = FALSE
                       /\ paused' = TRUE
                       /\ ticksSincePause' = 0
                       /\ callsSincePause' = 0
                  ELSE /\ callsSincePause' = IF paused THEN callsSincePause + 1 ELSE callsSincePause
                       /\ ticksSincePause' = IF paused THEN ticksSincePause + 1 ELSE ticksSincePause
                       /\ UNCHANGED <<isPlaying, paused>>
            /\ raf' = Append(raf, "draw")
    /\ UNCHANGED <<now, called, start, algVars, jobVars, playVars>>

---------------------------------------------------------------------------
(* play *)

NoAnimation == [kind |-> "none"]

PlayAnims ==
    {tween(R(0), R(100), R(60), "linear"), tween(R(0), R(10), R(20), "linear"),
     tween(R(0), R(10), R(0), "linear")}

\* the smallest step by which the clock advances
Step == CHOOSE d \in Deltas : d > 0 /\ \A e \in Deltas : e > 0 => d <= e

PlayInit ==
    /\ animation = NoAnimation
    /\ playStart = 0
    /\ playLog = <<>>
    /\ playDone = FALSE

\* caller code, between two ticks, calls play(animation, callback, fps); the
\* clock can still pass the end of the animation
Play ==
    /\ running = <<>>
    /\ animation = NoAnimation
    /\ \E a \in PlayAnims :
          /\ Le(Add(R(now + Step), a.duration), R(MaxTime))
          /\ animation' = a
    /\ playStart' = now
    /\ raf' = Append(raf, "playDraw")
    /\ called' = TRUE
    /\ UNCHANGED <<now, running, playLog, playDone, algVars, jobVars, drawVars>>

\* what the callback receives at an elapsed time: animation(frame)
Delivered(elapsed) ==
    [elapsed |-> elapsed, frame |-> elapsedToFrame(elapsed, Fps),
     value |-> Eval(animation, R(elapsedToFrame(elapsed, Fps)))]

\* RunPlayDraw without the return at the end of the animation
RunPlayDraw_noReturn ==
    /\ running # <<>>
    /\ Head(running) = "playDraw"
    /\ running' = Tail(running)
    /\ playLog' = Append(playLog, Delivered(now - playStart))
    /\ raf' = Append(raf, "playDraw")
    /\ UNCHANGED <<now, called, animation, playStart, playDone, algVars, jobVars, drawVars>>

\* the rendering clock dispatches the draw closure of play
RunPlayDraw ==
    /\ running # <<>>
    /\ Head(running) = "playDraw"
    /\ running' = Tail(running)
    /\ \/ /\ Lt(animation.duration, R(now - playStart))
          /\ playDone' = TRUE
          /\ UNCHANGED <<raf, playLog>>
       \/ /\ ~Lt(animation.duration, R(now - playStart))
          /\ playLog' = Append(playLog, Delivered(now - playStart))
          /\ raf' = Append(raf, "playDraw")
          /\ UNCHANGED playDone
    /\ UNCHANGED <<now, called, animation, playStart, algVars, jobVars, drawVars>>

---------------------------------------------------------------------------
(* Specifications *)

AnimInit == AlgInit /\ HostInit /\ JobInit /\ DrawInit /\ PlayInit

AnimNext == ApplyTween \/ ApplyDelay \/ ApplyRepeat \/ ApplyTrack

SpecAnim == AnimInit /\ [][AnimNext]_vars

Init == AlgIdle /\ HostInit /\ JobInit /\ DrawInit /\ PlayInit

FrameNext == WithFrame \/ BeginTick \/ RunTransactFrame

SpecFrame == Init /\ [][FrameNext]_vars

DrawNext == DrawPlay \/ DrawPause \/ BeginTick \/ RunDraw

SpecDraw == Init /\ [][DrawNext]_vars

PlayNext == Play \/ BeginTick \/ RunPlayDraw

SpecPlay == Init /\ [][PlayNext]_vars

\* a callback of the tick being dispatched is run
Dispatch == running # <<>> /\ running' = Tail(running)

\* the rendering clock keeps firing and dispatches every requested callback
LivePlay == SpecPlay /\ WF_vars(BeginTick) /\ WF_running(Dispatch)

Next == AnimNext \/ FrameNext \/ DrawNext \/ PlayNext

Spec == Init /\ [][Next]_vars

---------------------------------------------------------------------------
(* Claims about the animation algebra, checked under SpecAnim *)

\* C6: for every animation anim, delay d >= 0 and frame f in
\* 0..d+anim.duration, delay(anim, d)(f) is anim(0) when f < d and
\* anim(f - d) when f >= d.
C6_DelayHoldsThenShifts ==
    (out.op = "delay" /\ Le(frame, out.duration)) =>
        out.value = IF Lt(frame, R(arg)) THEN Eval(first, R(0))
                    ELSE Eval(first, Sub(frame, R(arg)))

RECURSIVE SumDurations(_)
SumDurations(list) ==
    IF list = <<>> THEN R(0) ELSE Add(Head(list).duration, SumDurations(Tail(list)))

\* C7 as stated: track(a, b, ...) has the sum of the durations; track(a, b)
\* is a(0) at frame 0, a(f) at f <= a.duration, b(f - a.duration) at
\* f > a.duration, and b(b.duration) at frame a.duration + b.duration.
C7_TrackAsStated ==
    out.op = "track" =>
        /\ out.duration = SumDurations(<<first>> \o rest)
        /\ Len(rest) = 1 =>
              LET a == first
                  b == rest[1]
              IN  /\ frame = R(0) => out.value = Eval(a, R(0))
                  /\ Le(frame, a.duration) => out.value = Eval(a, frame)
                  /\ Lt(a.duration, frame) =>
                        out.value = Eval(b, Sub(frame, a.duration))
                  /\ frame = Add(a.duration, b.duration) =>
                        out.value = Eval(b, b.duration)

\* C7 amended: as stated, the value at frame a.duration + b.duration being
\* b(b.duration) only when b.duration > 0 (at b.duration = 0 that frame is
\* a.duration, where track(a, b) is a(a.duration)).
C7_Track ==
    out.op = "track" =>
        /\ out.duration = SumDurations(<<first>> \o rest)
        /\ Len(rest) = 1 =>
              LET a == first
                  b == rest[1]
              IN  /\ frame = R(0) => out.value = Eval(a, R(0))
                  /\ Le(frame, a.duration) => out.value = Eval(a, frame)
                  /\ Lt(a.duration, frame) =>
                        out.value = Eval(b, Sub(frame, a.duration))
                  /\ (frame = Add(a.duration, b.duration) /\ Lt(R(0), b.duration)) =>
                        out.value = Eval(b, b.duration)

\* track(a, b) was evaluated at its last frame, in b's part, and at a frame
\* where b differs from the end of a
C7_Witness ==
    /\ out.op = "track"
    /\ Len(rest) = 1
    /\ Lt(R(0), rest[1].duration)
    /\ frame = Add(first.duration, rest[1].duration)
    /\ out.value # Eval(first, first.duration)

\* x mod y for x >= 0 and y > 0
Mod(x, y) == Sub(x, Mul(y, R(Floor(Div(x, y)))))

\* C8: repeat(anim, n) has duration n * anim.duration; it is anim(0) at frame
\* k * anim.duration for 0 <= k < n, anim(anim.duration) at every frame
\* f >= n * anim.duration, and anim(f mod anim.duration) at every other frame.
C8_Repeat ==
    out.op = "repeat" =>
        LET n == R(arg)
            d == first.duration
        IN  /\ out.duration = Mul(n, d)
            /\ \A k \in 0..(arg - 1) :
                  frame = Mul(R(k), d) => out.value = Eval(first, R(0))
            /\ Le(Mul(n, d), frame) => out.value = Eval(first, d)
            /\ Lt(frame, Mul(n, d)) => out.value = Eval(first, Mod(frame, d))

\* repeat(anim, n) was evaluated at the start of its second cycle, where anim
\* has started again
C8_Witness ==
    /\ out.op = "repeat"
    /\ arg >= 2
    /\ Lt(R(0), first.duration)
    /\ frame = first.duration
    /\ out.value = Eval(first, R(0))
    /\ out.value # Eval(first, first.duration)

\* C9: for all from and to, increasing or decreasing, and every duration > 0,
\* tween(from, to, duration, linear) is from at frame 0, to at frame
\* duration and (from + to) / 2 at frame duration / 2.
C9_TweenEndpoints ==
    (out.op = "tween" /\ first.easing = "linear" /\ Lt(R(0), first.duration)) =>
        /\ frame = R(0) => out.value = first.from
        /\ frame = first.duration => out.value = first.to
        /\ frame = Div(first.duration, R(2)) =>
              out.value = Div(Add(first.from, first.to), R(2))

---------------------------------------------------------------------------
(* Claims about withFrame, checked under SpecFrame *)

\* the position of job id in the order of execution, 0 if it has not run
RunPos(id) ==
    IF \E k \in 1..Len(runLog) : runLog[k].id = id
    THEN CHOOSE k \in 1..Len(runLog) : runLog[k].id = id
    ELSE 0

\* the calls made by caller code, not by a running job
TopLevel == {i \in 1..Len(enqLog) : enqLog[i].parent = 0}

\* the calls made by a job while a flush was running
Nested == {i \in 1..Len(enqLog) : enqLog[i].parent # 0}

---------------------------------------------------------------------------
(* Claims about draw, checked under SpecDraw *)

\* C3: after pause(), with no further play(), at most one more tick of the
\* loop fires and the callback is invoked at most once more; after that tick
\* the loop holds no pending tick request.
C3_PauseStopsWithinOneTick ==
    paused =>
        /\ ticksSincePause <= 1
        /\ callsSincePause <= 1
        /\ ticksSincePause >= 1 => Pending("draw") = 0

\* C10: whatever the sequence of play() calls, pause() calls and ticks, at
\* most one tick request of the loop is pending, and the callback is invoked
\* at most once per rendering tick.
C10_OnePendingTick ==
    /\ Pending("draw") <= 1
    /\ callsThisTick <= 1

---------------------------------------------------------------------------
(* Claims about play, checked under SpecPlay and LivePlay *)

\* the tick being dispatched observes an elapsed time past the duration
PastDuration ==
    /\ running # <<>>
    /\ Head(running) = "playDraw"
    /\ Lt(animation.duration, R(now - playStart))

\* C4: play on an animation of finite duration eventually stops re-arming
\* itself: the tick that observes an elapsed time greater than the duration
\* neither invokes the callback nor requests another tick, and the callback
\* is never invoked again.
C4_PlayTerminates ==
    /\ (animation # NoAnimation) ~> (playDone /\ Pending("playDraw") = 0)
    /\ [][(PastDuration \/ playDone) =>
              (playLog' = playLog /\ Pending("playDraw")' = 0)]_vars

\* play has delivered values and has stopped
C4_Witness ==
    /\ playDone
    /\ Len(playLog) >= 2
    /\ Pending("playDraw") = 0

\* C5: play(tween(0, 100, 60, linear), cb) at 60 fps with ticks at elapsed
\* 0, 30, 60 and 90 ms invokes cb with exactly 0, 50, 100, in that order, and
\* not at elapsed 90.
C5_PlayDeliversValues ==
    (/\ animation = tween(R(0), R(100), R(60), "linear")
     /\ playDone
     /\ now - playStart = 90
     /\ [i \in 1..Len(playLog) |-> playLog[i].elapsed] = <<0, 30, 60>>)
        => [i \in 1..Len(playLog) |-> playLog[i].value] = <<R(0), R(50), R(100)>>

====
